---- MODULE Spec2Model ----
(***************************************************************************)
(* HomeKit Controller television entity (HomeKitTelevision) of             *)
(* homeassistant/components/homekit_controller/media_player.py.            *)
(*                                                                         *)
(* The entity owns three fields (_features, _supported_target_media_state, *)
(* _supported_remote_key).  Everything else it reads from the accessory's  *)
(* last-known characteristic snapshot and service list, which the          *)
(* accessory changes on its own.  Characteristic values are optional:      *)
(* None is <<>> and a present value v is <<v>>.  Python's False and True   *)
(* are the integers 0 and 1.                                               *)
(*                                                                         *)
(* A command is a coroutine: it runs its guard and hands its write to the  *)
(* transport in one step, is parked at the await, and returns in a later   *)
(* step when the write completed or failed.  Setup callbacks, accessory    *)
(* changes, property reads and other commands run in between.              *)
(***************************************************************************)
EXTENDS Integers, Sequences, FiniteSets, Bags, TLC

\* ------------------------------------------------------------- bounds
\* Longest list of sub-services the accessory enumerates.
MaxSources == 2
\* Identifier characteristics of input sources range over 1..MaxId.
MaxId == 2
\* Most commands the callers have parked at once on writes the transport has
\* not finished; the entity itself sets no limit.
MaxPending == 2

\* ---------------------------------------------------------- constants
\* CurrentMediaStateValues
PLAYING == 0
PAUSED == 1
STOPPED == 2
\* TargetMediaStateValues
PLAY == 0
PAUSE == 1
STOP == 2
TargetMediaStateValues == {PLAY, PAUSE, STOP}
\* RemoteKeyValues
PLAY_PAUSE == 11
RemoteKeyValues == (0 .. 11) \cup {15}

\* media_player feature bits
SUPPORT_PAUSE == 1
SUPPORT_SELECT_SOURCE == 2048
SUPPORT_STOP == 4096
SUPPORT_PLAY == 16384

STATE_IDLE == "idle"
STATE_OK == "ok"
STATE_PAUSED == "paused"
STATE_PLAYING == "playing"
STATE_PROBLEM == "problem"

\* CharacteristicsTypes written by the commands
TARGET_MEDIA_STATE == "target_media_state"
REMOTE_KEY == "remote_key"
ACTIVE_IDENTIFIER == "active_identifier"

\* ServicesTypes
INPUT_SOURCE == "input-source"
OTHER_SERVICE == "speaker"

\* The instance of the television service this entity is bound to (self._iid),
\* and another television of the same accessory.
THIS_TV == "this_tv"
OTHER_TV == "other_tv"

\* ------------------------------------------------------ value helpers
None == <<>>
Some(v) == <<v>>

\* Python's `not x` for an optional integer characteristic value.
Falsy(x) == x = None \/ x = Some(0)

\* f & flag # 0, for a single-bit flag.
HasFlag(f, flag) == (f \div flag) % 2 = 1

\* f | flag, for a single-bit flag.
BitOr(f, flag) == IF HasFlag(f, flag) THEN f ELSE f + flag

\* clamp_enum_to_char: the known enum values the characteristic advertises.
clamp_enum_to_char(all_valid_values, char) == all_valid_values \cap char

\* ------------------------------------------------- accessory universe
ActiveValues == {None, Some(0), Some(1)}
\* 3 stands for any media state outside the table (LOADING, INTERRUPTED, ...).
MediaStateValues == {None, Some(PLAYING), Some(PAUSED), Some(STOPPED), Some(3)}
ActiveIdentifierValues == {None} \cup {Some(i) : i \in 0 .. MaxId}

\* Advertised valid-values of the target-media-state characteristic; 3 is a
\* value the enum does not know.
TargetMediaStateChars ==
    ((SUBSET TargetMediaStateValues) \ {TargetMediaStateValues})
        \cup {TargetMediaStateValues \cup {3}}
\* Advertised valid-values of the remote-key characteristic; 16 is a value the
\* enum does not know.
RemoteKeyChars == {{}, {8, PLAY_PAUSE, 16}}

SourceNames == {"HDMI 1", "HDMI 2"}
\* Names a caller may ask for: the configured names and a near miss.
RequestedNames == SourceNames \cup {"HDMI"}

\* A sub-service of the accessory: its type, the service it is linked under,
\* and its configured-name and identifier characteristics.  Besides the input
\* sources of this television there are services the lookups must pass over:
\* input sources of another television and services of another type.
Services ==
    { [stype |-> INPUT_SOURCE, parent |-> THIS_TV,
       configured_name |-> n, identifier |-> i] :
        n \in SourceNames, i \in 1 .. MaxId }
    \cup
    { [stype |-> k[1], parent |-> k[2], configured_name |-> n, identifier |-> 1] :
        k \in {<<INPUT_SOURCE, OTHER_TV>>, <<OTHER_SERVICE, THIS_TV>>},
        n \in SourceNames }

Hdmi1 ==
    [stype |-> INPUT_SOURCE, parent |-> THIS_TV,
     configured_name |-> "HDMI 1", identifier |-> 1]

VARIABLES
    features,                      \* self._features
    supported_target_media_state,  \* self._supported_target_media_state
    supported_remote_key,          \* self._supported_remote_key
    active_identifier_char,        \* an active-identifier characteristic was set up
    active,                        \* snapshot: ACTIVE
    current_media_state,           \* snapshot: CURRENT_MEDIA_STATE
    active_identifier,             \* snapshot: ACTIVE_IDENTIFIER
    services,                      \* the accessory's sub-services, in its order
    pending,                       \* bag of commands parked at their await
    op,                            \* the operation that took the last step
    arg,                           \* its argument (source name, char), or None
    writes,                        \* the characteristic writes it issued
    outcome,                       \* "ok", "pending" while parked, or its error
    ret                            \* what it returned, where it returns a value

entity == <<features, supported_target_media_state, supported_remote_key>>
snapshot == <<active, current_media_state, active_identifier, services>>
call == <<op, arg, writes, outcome, ret>>
vars == <<entity, active_identifier_char, snapshot, pending, call>>

\* ----------------------------------------------------- service lookup
\* services.filter(service_type=..., parent_service=this_tv): the matching
\* services, in the accessory's order.
filter(svcs, service_type, parent_service) ==
    SelectSeq(svcs, LAMBDA s : s.stype = service_type /\ s.parent = parent_service)

\* services.first(service_type=..., characteristics={CONFIGURED_NAME: name},
\* parent_service=this_tv): the first match, or None.
first_by_name(svcs, name) ==
    LET matches == SelectSeq(filter(svcs, INPUT_SOURCE, THIS_TV),
                             LAMBDA s : s.configured_name = name)
    IN  IF matches = <<>> THEN None ELSE Some(matches[1])

\* services.first(service_type=..., characteristics={IDENTIFIER: ident},
\* parent_service=this_tv): the first match, or None.
first_by_identifier(svcs, ident) ==
    LET matches == SelectSeq(filter(svcs, INPUT_SOURCE, THIS_TV),
                             LAMBDA s : s.identifier = ident)
    IN  IF matches = <<>> THEN None ELSE Some(matches[1])

\* ----------------------------------------------------------- properties
HK_TO_HA_STATE ==
    (PLAYING :> STATE_PLAYING) @@ (PAUSED :> STATE_PAUSED) @@ (STOPPED :> STATE_IDLE)

\* state with the media state consulted before the active characteristic.
state_media_first(active_value, homekit_state) ==
    IF homekit_state # None /\ homekit_state[1] \in DOMAIN HK_TO_HA_STATE
    THEN HK_TO_HA_STATE[homekit_state[1]]
    ELSE IF Falsy(active_value) THEN STATE_PROBLEM ELSE STATE_OK

\* state with `if homekit_state:` in place of `is not None`.
state_truthy_media(active_value, homekit_state) ==
    IF Falsy(active_value) THEN STATE_PROBLEM
    ELSE IF ~Falsy(homekit_state)
         THEN IF homekit_state[1] \in DOMAIN HK_TO_HA_STATE
              THEN HK_TO_HA_STATE[homekit_state[1]]
              ELSE STATE_OK
         ELSE STATE_OK

\* HomeKitTelevision.state
state(active_value, homekit_state) ==
    IF Falsy(active_value) THEN STATE_PROBLEM
    ELSE IF homekit_state # None
         THEN IF homekit_state[1] \in DOMAIN HK_TO_HA_STATE
              THEN HK_TO_HA_STATE[homekit_state[1]]
              ELSE STATE_OK
         ELSE STATE_OK

\* HomeKitTelevision.supported_features
supported_features(f) == f

\* HomeKitTelevision.source_list
source_list(svcs) ==
    LET input_sources == filter(svcs, INPUT_SOURCE, THIS_TV)
    IN  [i \in 1 .. Len(input_sources) |-> input_sources[i].configured_name]

\* HomeKitTelevision.source: the value returned, or the error raised when the
\* lookup finds nothing and the result is subscripted.
source(identifier_value, svcs) ==
    IF Falsy(identifier_value) THEN [outcome |-> "ok", ret |-> None]
    ELSE LET input_source == first_by_identifier(svcs, identifier_value[1])
         IN  IF input_source = None
             THEN [outcome |-> "TypeError", ret |-> None]
             ELSE [outcome |-> "ok", ret |-> Some(input_source[1].configured_name)]

\* ------------------------------------------------------------- initial
\* __init__, before the setup callbacks run, against an accessory with one
\* input source and any active / media state.
Init ==
    /\ features = 0
    /\ supported_target_media_state = {}
    /\ supported_remote_key = {}
    /\ active_identifier_char = FALSE
    /\ active \in ActiveValues
    /\ current_media_state \in MediaStateValues
    /\ active_identifier = None
    /\ services = <<Hdmi1>>
    /\ pending = EmptyBag
    /\ op = "init"
    /\ arg = None
    /\ writes = <<>>
    /\ outcome = "ok"
    /\ ret = None

\* The same entity against an active accessory, for the source handling.
InitSource ==
    /\ Init
    /\ active = Some(1)
    /\ current_media_state = None

\* ----------------------------------------------------- setup callbacks
\* A synchronous callback or accessory update: it writes nothing, returns
\* nothing and leaves the parked commands parked.
Returns(name, argument) ==
    /\ op' = name
    /\ arg' = argument
    /\ writes' = <<>>
    /\ outcome' = "ok"
    /\ ret' = None
    /\ pending' = pending

setup_active_identifier ==
    /\ features' = BitOr(features, SUPPORT_SELECT_SOURCE)
    /\ active_identifier_char' = TRUE
    /\ Returns("setup_active_identifier", None)
    /\ UNCHANGED <<supported_target_media_state, supported_remote_key, snapshot>>

setup_target_media_state(char) ==
    LET supported == clamp_enum_to_char(TargetMediaStateValues, char)
        f1 == IF PAUSE \in supported THEN BitOr(features, SUPPORT_PAUSE) ELSE features
        f2 == IF PLAY \in supported THEN BitOr(f1, SUPPORT_PLAY) ELSE f1
        f3 == IF STOP \in supported THEN BitOr(f2, SUPPORT_STOP) ELSE f2
    IN  /\ supported_target_media_state' = supported
        /\ features' = f3
        /\ Returns("setup_target_media_state", Some(char))
        /\ UNCHANGED <<supported_remote_key, active_identifier_char, snapshot>>

setup_remote_key(char) ==
    LET supported == clamp_enum_to_char(RemoteKeyValues, char)
    IN  /\ supported_remote_key' = supported
        /\ features' = IF PLAY_PAUSE \in supported
                       THEN BitOr(BitOr(features, SUPPORT_PAUSE), SUPPORT_PLAY)
                       ELSE features
        /\ Returns("setup_remote_key", Some(char))
        /\ UNCHANGED <<supported_target_media_state, active_identifier_char, snapshot>>

\* ------------------------------------------------------------ commands
\* await self.async_put_characteristics({characteristic: value}), first half:
\* the write is handed to the transport and the calling command (op', arg') is
\* parked until the transport finishes.
async_put_characteristics(characteristic, value) ==
    /\ writes' = << <<characteristic, value>> >>
    /\ outcome' = "pending"
    /\ pending' = pending (+) SetToBag({[op |-> op', arg |-> arg',
                                         write |-> <<characteristic, value>>]})

\* The second half with the capability dropped when the transport fails.
put_characteristics_done_drops_capability(c, ok) ==
    /\ BagIn(c, pending)
    /\ pending' = pending (-) SetToBag({c})
    /\ op' = c.op
    /\ arg' = c.arg
    /\ writes' = <<c.write>>
    /\ outcome' = IF ok THEN "ok" ELSE "transport_failure"
    /\ ret' = None
    /\ supported_target_media_state' =
           IF ok \/ c.write[1] # TARGET_MEDIA_STATE
           THEN supported_target_media_state
           ELSE supported_target_media_state \ {c.write[2]}
    /\ UNCHANGED <<features, supported_remote_key, active_identifier_char, snapshot>>

\* await self.async_put_characteristics(...), second half: the transport
\* completes or fails the write of a parked command, which then returns or
\* raises the failure unchanged.
put_characteristics_done(c, ok) ==
    /\ BagIn(c, pending)
    /\ pending' = pending (-) SetToBag({c})
    /\ op' = c.op
    /\ arg' = c.arg
    /\ writes' = <<c.write>>
    /\ outcome' = IF ok THEN "ok" ELSE "transport_failure"
    /\ ret' = None
    /\ UNCHANGED <<entity, active_identifier_char, snapshot>>

\* A command that returns without writing.
no_write ==
    /\ writes' = <<>>
    /\ outcome' = "ok"
    /\ pending' = pending

\* play with the remote key tried before the target media state.
async_media_play_remote_first ==
    /\ op' = "media_play"
    /\ arg' = None
    /\ ret' = None
    /\ IF state(active, current_media_state) = STATE_PLAYING
       THEN no_write
       ELSE IF PLAY_PAUSE \in supported_remote_key
            THEN async_put_characteristics(REMOTE_KEY, PLAY_PAUSE)
            ELSE IF PLAY \in supported_target_media_state
                 THEN async_put_characteristics(TARGET_MEDIA_STATE, PLAY)
                 ELSE no_write
    /\ UNCHANGED <<entity, active_identifier_char, snapshot>>

async_media_play ==
    /\ op' = "media_play"
    /\ arg' = None
    /\ ret' = None
    /\ IF state(active, current_media_state) = STATE_PLAYING
       THEN no_write
       ELSE IF PLAY \in supported_target_media_state
            THEN async_put_characteristics(TARGET_MEDIA_STATE, PLAY)
            ELSE IF PLAY_PAUSE \in supported_remote_key
                 THEN async_put_characteristics(REMOTE_KEY, PLAY_PAUSE)
                 ELSE no_write
    /\ UNCHANGED <<entity, active_identifier_char, snapshot>>

\* pause guarding on "playing", as play does.
async_media_pause_wrong_guard ==
    /\ op' = "media_pause"
    /\ arg' = None
    /\ ret' = None
    /\ IF state(active, current_media_state) = STATE_PLAYING
       THEN no_write
       ELSE IF PAUSE \in supported_target_media_state
            THEN async_put_characteristics(TARGET_MEDIA_STATE, PAUSE)
            ELSE IF PLAY_PAUSE \in supported_remote_key
                 THEN async_put_characteristics(REMOTE_KEY, PLAY_PAUSE)
                 ELSE no_write
    /\ UNCHANGED <<entity, active_identifier_char, snapshot>>

async_media_pause ==
    /\ op' = "media_pause"
    /\ arg' = None
    /\ ret' = None
    /\ IF state(active, current_media_state) = STATE_PAUSED
       THEN no_write
       ELSE IF PAUSE \in supported_target_media_state
            THEN async_put_characteristics(TARGET_MEDIA_STATE, PAUSE)
            ELSE IF PLAY_PAUSE \in supported_remote_key
                 THEN async_put_characteristics(REMOTE_KEY, PLAY_PAUSE)
                 ELSE no_write
    /\ UNCHANGED <<entity, active_identifier_char, snapshot>>

\* stop with the remote-key fallback of play and pause.
async_media_stop_with_fallback ==
    /\ op' = "media_stop"
    /\ arg' = None
    /\ ret' = None
    /\ IF state(active, current_media_state) = STATE_IDLE
       THEN no_write
       ELSE IF STOP \in supported_target_media_state
            THEN async_put_characteristics(TARGET_MEDIA_STATE, STOP)
            ELSE IF PLAY_PAUSE \in supported_remote_key
                 THEN async_put_characteristics(REMOTE_KEY, PLAY_PAUSE)
                 ELSE no_write
    /\ UNCHANGED <<entity, active_identifier_char, snapshot>>

async_media_stop ==
    /\ op' = "media_stop"
    /\ arg' = None
    /\ ret' = None
    /\ IF state(active, current_media_state) = STATE_IDLE
       THEN no_write
       ELSE IF STOP \in supported_target_media_state
            THEN async_put_characteristics(TARGET_MEDIA_STATE, STOP)
            ELSE no_write
    /\ UNCHANGED <<entity, active_identifier_char, snapshot>>

\* select_source looking the name up among all services, whatever their type
\* and parent.
async_select_source_unfiltered(name) ==
    LET matches == SelectSeq(services, LAMBDA s : s.configured_name = name)
    IN  /\ op' = "select_source"
        /\ arg' = Some(name)
        /\ ret' = None
        /\ IF matches = <<>>
           THEN /\ writes' = <<>>
                /\ outcome' = "ValueError"
                /\ pending' = pending
           ELSE async_put_characteristics(ACTIVE_IDENTIFIER, matches[1].identifier)
        /\ UNCHANGED <<entity, active_identifier_char, snapshot>>

async_select_source(name) ==
    LET input_source == first_by_name(services, name)
    IN  /\ op' = "select_source"
        /\ arg' = Some(name)
        /\ ret' = None
        /\ IF input_source = None
           THEN /\ writes' = <<>>
                /\ outcome' = "ValueError"
                /\ pending' = pending
           ELSE async_put_characteristics(ACTIVE_IDENTIFIER,
                                          input_source[1].identifier)
        /\ UNCHANGED <<entity, active_identifier_char, snapshot>>

\* ------------------------------------------------------ property reads
\* A synchronous property read returning `value`, or raising `result`.
Reads(name, result, value) ==
    /\ op' = name
    /\ arg' = None
    /\ writes' = <<>>
    /\ outcome' = result
    /\ ret' = value
    /\ UNCHANGED <<entity, active_identifier_char, snapshot, pending>>

read_state == Reads("state", "ok", state(active, current_media_state))

read_supported_features ==
    Reads("supported_features", "ok", supported_features(features))

read_source_list == Reads("source_list", "ok", source_list(services))

read_source ==
    LET r == source(active_identifier, services)
    IN  Reads("source", r.outcome, r.ret)

\* ---------------------------------------------------- accessory changes
\* The accessory collaborator refreshes the snapshot the entity reads.
ActiveChanges ==
    /\ \E v \in ActiveValues : active' = v
    /\ Returns("accessory", None)
    /\ UNCHANGED <<entity, active_identifier_char, current_media_state,
                   active_identifier, services>>

MediaStateChanges ==
    /\ \E v \in MediaStateValues : current_media_state' = v
    /\ Returns("accessory", None)
    /\ UNCHANGED <<entity, active_identifier_char, active, active_identifier, services>>

ActiveIdentifierChanges ==
    /\ \E v \in ActiveIdentifierValues : active_identifier' = v
    /\ Returns("accessory", None)
    /\ UNCHANGED <<entity, active_identifier_char, active, current_media_state, services>>

ServiceAdded ==
    /\ Len(services) < MaxSources
    /\ \E s \in Services : services' = Append(services, s)
    /\ Returns("accessory", None)
    /\ UNCHANGED <<entity, active_identifier_char, active, current_media_state,
                   active_identifier>>

ServiceRemoved ==
    /\ \E i \in 1 .. Len(services) :
          services' = [j \in 1 .. Len(services) - 1 |->
                          IF j < i THEN services[j] ELSE services[j + 1]]
    /\ Returns("accessory", None)
    /\ UNCHANGED <<entity, active_identifier_char, active, current_media_state,
                   active_identifier>>

\* ------------------------------------------------------ specifications
SetupActiveIdentifier == setup_active_identifier
SetupTargetMediaState == \E char \in TargetMediaStateChars : setup_target_media_state(char)
SetupRemoteKey == \E char \in RemoteKeyChars : setup_remote_key(char)
\* The callers invoke a command only while fewer than MaxPending commands
\* are parked: a bound on the callers, not on the entity.
CanInvoke == BagCardinality(pending) < MaxPending

MediaPlay == CanInvoke /\ async_media_play
MediaPause == CanInvoke /\ async_media_pause
MediaStop == CanInvoke /\ async_media_stop
SelectSource == CanInvoke /\ \E name \in RequestedNames : async_select_source(name)
WriteDone == \E c \in BagToSet(pending), ok \in BOOLEAN : put_characteristics_done(c, ok)

\* The whole entity: every callback, command and property read, against an
\* accessory whose service list is fixed.
Next ==
    \/ SetupActiveIdentifier
    \/ SetupTargetMediaState
    \/ SetupRemoteKey
    \/ MediaPlay
    \/ MediaPause
    \/ MediaStop
    \/ SelectSource
    \/ WriteDone
    \/ read_state
    \/ read_supported_features
    \/ read_source_list
    \/ read_source
    \/ ActiveChanges
    \/ MediaStateChanges

Spec == Init /\ [][Next]_vars

\* Source selection against an accessory whose service list changes.
NextSelect ==
    \/ SelectSource
    \/ WriteDone
    \/ ServiceAdded
    \/ ServiceRemoved

SpecSelect == InitSource /\ [][NextSelect]_vars

\* Source reads against an accessory whose service list and active
\* identifier change.
NextSource ==
    \/ read_source_list
    \/ read_source
    \/ ActiveIdentifierChanges
    \/ ServiceAdded
    \/ ServiceRemoved

SpecSource == InitSource /\ [][NextSource]_vars

\* ------------------------------------------------------------- claims
\* The input sources linked under this television, in the accessory's order.
InputSources == filter(services, INPUT_SOURCE, THIS_TV)

DerivedState == state(active, current_media_state)

\* The last step ran a command's guard: the command returned at once, or it is
\* parked with the write it issued.  Nothing else has run since, so the
\* snapshot and the capabilities are the ones the guard read.
Decided == outcome = "pending" \/ writes = <<>>

\* C1: whenever the active characteristic is false, zero or absent, a read of
\* state returns "problem", whatever the current media state is.
C1_InactiveIsProblem ==
    (op = "state" /\ (active = None \/ active = Some(0))) => ret = "problem"

C1_Witness ==
    /\ op = "state"
    /\ active = Some(0)
    /\ current_media_state = Some(PLAYING)
    /\ ret = "problem"

\* C2: whenever active is truthy, a read of state returns playing for PLAYING,
\* paused for PAUSED, idle for STOPPED, and ok for any other media state and
\* for an absent one.
C2_ActiveMapsMediaState ==
    (op = "state" /\ active # None /\ active # Some(0)) =>
        /\ current_media_state = Some(PLAYING) => ret = "playing"
        /\ current_media_state = Some(PAUSED) => ret = "paused"
        /\ current_media_state = Some(STOPPED) => ret = "idle"
        /\ current_media_state \notin {Some(PLAYING), Some(PAUSED), Some(STOPPED)}
               => ret = "ok"

C2_Witness ==
    /\ op = "state"
    /\ active = Some(1)
    /\ current_media_state = Some(PLAYING)
    /\ ret = "playing"

\* C3: play writes nothing when the derived state it reads is already playing;
\* otherwise it issues exactly one write, target-media-state=PLAY when PLAY is
\* supported, else remote-key=PLAY_PAUSE when that key is supported, and with
\* neither it writes nothing and raises no error.  When it returns it has
\* issued at most that one write.
C3_PlayWrites ==
    op = "media_play" =>
        /\ Len(writes) <= 1
        /\ \A i \in 1 .. Len(writes) :
              writes[i] \in {<<TARGET_MEDIA_STATE, PLAY>>, <<REMOTE_KEY, PLAY_PAUSE>>}
        /\ Decided =>
              /\ DerivedState = "playing" => writes = <<>> /\ outcome = "ok"
              /\ (DerivedState # "playing" /\ PLAY \in supported_target_media_state)
                     => writes = << <<TARGET_MEDIA_STATE, PLAY>> >>
              /\ (DerivedState # "playing" /\ PLAY \notin supported_target_media_state
                      /\ PLAY_PAUSE \in supported_remote_key)
                     => writes = << <<REMOTE_KEY, PLAY_PAUSE>> >>
              /\ (DerivedState # "playing" /\ PLAY \notin supported_target_media_state
                      /\ PLAY_PAUSE \notin supported_remote_key)
                     => writes = <<>> /\ outcome = "ok"

C3_Witness ==
    /\ op = "media_play"
    /\ outcome = "pending"
    /\ DerivedState = "idle"
    /\ PLAY \in supported_target_media_state
    /\ PLAY_PAUSE \in supported_remote_key
    /\ writes = << <<TARGET_MEDIA_STATE, PLAY>> >>

\* C4: pause writes nothing when the derived state it reads is already paused;
\* otherwise it issues exactly one write, target-media-state=PAUSE when PAUSE
\* is supported, else remote-key=PLAY_PAUSE when that key is supported, and
\* with neither it writes nothing and raises no error.
C4_PauseWrites ==
    op = "media_pause" =>
        /\ Len(writes) <= 1
        /\ \A i \in 1 .. Len(writes) :
              writes[i] \in {<<TARGET_MEDIA_STATE, PAUSE>>, <<REMOTE_KEY, PLAY_PAUSE>>}
        /\ Decided =>
              /\ DerivedState = "paused" => writes = <<>> /\ outcome = "ok"
              /\ (DerivedState # "paused" /\ PAUSE \in supported_target_media_state)
                     => writes = << <<TARGET_MEDIA_STATE, PAUSE>> >>
              /\ (DerivedState # "paused" /\ PAUSE \notin supported_target_media_state
                      /\ PLAY_PAUSE \in supported_remote_key)
                     => writes = << <<REMOTE_KEY, PLAY_PAUSE>> >>
              /\ (DerivedState # "paused" /\ PAUSE \notin supported_target_media_state
                      /\ PLAY_PAUSE \notin supported_remote_key)
                     => writes = <<>> /\ outcome = "ok"

C4_Witness ==
    /\ op = "media_pause"
    /\ outcome = "pending"
    /\ DerivedState = "playing"
    /\ PAUSE \notin supported_target_media_state
    /\ PLAY_PAUSE \in supported_remote_key
    /\ writes = << <<REMOTE_KEY, PLAY_PAUSE>> >>

\* C5: stop writes nothing when the derived state it reads is already idle;
\* otherwise it writes target-media-state=STOP exactly when STOP is supported;
\* it never writes the remote key.
C5_StopWrites ==
    op = "media_stop" =>
        /\ \A i \in 1 .. Len(writes) : writes[i] = <<TARGET_MEDIA_STATE, STOP>>
        /\ Decided =>
              /\ DerivedState = "idle" => writes = <<>>
              /\ (DerivedState # "idle" /\ STOP \in supported_target_media_state)
                     => writes = << <<TARGET_MEDIA_STATE, STOP>> >>
              /\ (DerivedState # "idle" /\ STOP \notin supported_target_media_state)
                     => writes = <<>> /\ outcome = "ok"

C5_Witness ==
    /\ op = "media_stop"
    /\ DerivedState = "playing"
    /\ STOP \notin supported_target_media_state
    /\ PLAY_PAUSE \in supported_remote_key
    /\ writes = <<>>

\* C6: select_source(name) raises source-not-found and writes nothing when no
\* input source linked under this television carries exactly that configured
\* name at the time of the call; otherwise it issues exactly one write,
\* active-identifier set to the identifier of the first such source in the
\* accessory's current list.
C6_SelectSourceWrites ==
    op = "select_source" =>
        /\ Len(writes) <= 1
        /\ \A i \in 1 .. Len(writes) : writes[i][1] = ACTIVE_IDENTIFIER
        /\ outcome = "ValueError" => writes = <<>>
        /\ (outcome = "pending" \/ outcome = "ValueError") =>
              LET named == {i \in 1 .. Len(InputSources) :
                               InputSources[i].configured_name = arg[1]}
              IN  /\ named = {} => writes = <<>> /\ outcome = "ValueError"
                  /\ named # {} =>
                         /\ outcome = "pending"
                         /\ \E i \in named :
                               /\ \A j \in named : i <= j
                               /\ writes = << <<ACTIVE_IDENTIFIER,
                                                InputSources[i].identifier>> >>

\* A sibling carries the name but is not an input source of this television.
C6_Witness ==
    /\ op = "select_source"
    /\ outcome = "ValueError"
    /\ writes = <<>>
    /\ \E i \in 1 .. Len(services) : services[i].configured_name = arg[1]
    /\ Len(InputSources) = 1

\* C7: source returns None when active-identifier is absent or zero, the
\* configured name of the input source with that identifier when there is one,
\* and None, without raising, when no input source has that identifier.
C7_SourceNeverRaises ==
    op = "source" =>
        LET matching == {i \in 1 .. Len(InputSources) :
                            Some(InputSources[i].identifier) = active_identifier}
        IN  /\ outcome = "ok"
            /\ (active_identifier = None \/ active_identifier = Some(0))
                   => ret = None
            /\ (active_identifier # None /\ active_identifier # Some(0)
                    /\ matching = {}) => ret = None
            /\ matching # {} =>
                   \E i \in matching :
                      /\ \A j \in matching : i <= j
                      /\ ret = Some(InputSources[i].configured_name)

\* C8: the capability state is a function of the latest metadata only: a setup
\* callback leaves its supported set at the advertisement clamped to the enum,
\* and each feature flag is set exactly when the latest supported sets grant
\* it (select-source: when an active-identifier characteristic was seen).
C8_FlagsFollowLatestMetadata ==
    /\ op = "setup_target_media_state"
           => supported_target_media_state = arg[1] \cap {PLAY, PAUSE, STOP}
    /\ op = "setup_remote_key"
           => supported_remote_key = arg[1] \cap ((0 .. 11) \cup {15})
    /\ HasFlag(features, SUPPORT_SELECT_SOURCE) <=> active_identifier_char
    /\ HasFlag(features, SUPPORT_STOP) <=> STOP \in supported_target_media_state
    /\ HasFlag(features, SUPPORT_PLAY)
           <=> (PLAY \in supported_target_media_state
                    \/ PLAY_PAUSE \in supported_remote_key)
    /\ HasFlag(features, SUPPORT_PAUSE)
           <=> (PAUSE \in supported_target_media_state
                    \/ PLAY_PAUSE \in supported_remote_key)

\* Every command can be invoked: none is disabled by what the entity holds.
CommandsInvocable ==
    /\ ENABLED async_media_play
    /\ ENABLED async_media_pause
    /\ ENABLED async_media_stop
    /\ \A name \in RequestedNames : ENABLED async_select_source(name)

\* C9: under any interleaving of commands, callbacks, reads and accessory
\* changes, no step of a command (its guard and write, or its return after
\* the write completed or failed) and no property read changes the feature
\* flags or the two supported sets.  A parked command returns exactly once,
\* as itself, with the write it issued and the transport's outcome: a failure
\* reaches its caller and is not retried, and source-not-found is raised
\* without parking.  After a failed command, whatever else is parked, every
\* command can still be invoked.
C9_HandlersLeaveCapabilities ==
    /\ [][op' \in {"media_play", "media_pause", "media_stop", "select_source",
                   "state", "source_list", "source", "supported_features"}
             => UNCHANGED <<features, supported_target_media_state,
                            supported_remote_key>>]_vars
    /\ [][pending' # pending =>
             \/ /\ outcome' = "pending"
                /\ Len(writes') = 1
                /\ pending' = pending (+) SetToBag({[op |-> op', arg |-> arg',
                                                     write |-> writes'[1]]})
             \/ \E c \in BagToSet(pending) :
                   /\ pending' = pending (-) SetToBag({c})
                   /\ op' = c.op
                   /\ arg' = c.arg
                   /\ writes' = <<c.write>>
                   /\ outcome' \in {"ok", "transport_failure"}]_vars
    /\ [][outcome' \in {"transport_failure", "ValueError"}
             => /\ BagCardinality(pending') <= BagCardinality(pending)
                /\ outcome' = "ValueError" => pending' = pending]_vars
    /\ [](outcome \in {"transport_failure", "ValueError"} => CommandsInvocable)

\* A pause fails at the transport while a play issued before it is still
\* parked, after a callback withdrew both capabilities; the flags are untouched.
C9_Witness ==
    /\ op = "media_pause"
    /\ outcome = "transport_failure"
    /\ writes = << <<TARGET_MEDIA_STATE, PAUSE>> >>
    /\ BagToSet(pending) = {[op |-> "media_play", arg |-> None,
                             write |-> <<TARGET_MEDIA_STATE, PLAY>>]}
    /\ supported_target_media_state = {}
    /\ features = SUPPORT_PLAY + SUPPORT_PAUSE

\* C10: for play, pause and stop, the flag is set in supported_features exactly
\* when the command, invoked while the derived state is not its target state,
\* issues a write.
C10_FlagsAgreeWithCommands ==
    Decided =>
        /\ (op = "media_play" /\ DerivedState # "playing")
               => (HasFlag(supported_features(features), SUPPORT_PLAY) <=> writes # <<>>)
        /\ (op = "media_pause" /\ DerivedState # "paused")
               => (HasFlag(supported_features(features), SUPPORT_PAUSE) <=> writes # <<>>)
        /\ (op = "media_stop" /\ DerivedState # "idle")
               => (HasFlag(supported_features(features), SUPPORT_STOP) <=> writes # <<>>)

====
